---- MODULE Spec2Model ----
(***************************************************************************)
(* LightOS model compiler (src/tools/model_compiler.py): the graph IR, the *)
(* optimisation passes of ModelCompiler and the control flow of compile(). *)
(* A graph is the list of its nodes plus the tensor table and the input    *)
(* and output id lists; compile() mutates the caller's graph in place and  *)
(* accumulates counters in the compiler's CompilationStats object.         *)
(***************************************************************************)
EXTENDS Integers, Sequences, FiniteSets, TLC

(***************************************************************************)
(* Bounds of the model.                                                    *)
(***************************************************************************)
MaxNodes == 3

(***************************************************************************)
(* OpType (the enumeration's member names; profile_graph tests the member  *)
(* name for the substring "FUSED").                                        *)
(***************************************************************************)
FusedKinds ==
  {"FUSED_MATMUL_RELU", "FUSED_MATMUL_GELU",
   "FUSED_CONV_BATCHNORM_RELU", "FUSED_LAYERNORM_ATTENTION"}

OpType ==
  {"MATMUL", "CONV2D", "RELU", "GELU", "SILU", "SOFTMAX",
   "LAYERNORM", "BATCHNORM", "RMSNORM",
   "ATTENTION", "MULTI_HEAD_ATTENTION", "ADD", "MUL"} \cup FusedKinds

(***************************************************************************)
(* Python helpers on lists, sets and dicts.                                *)
(***************************************************************************)
Range(s) == {s[k] : k \in 1..Len(s)}

\* {**a, **b}: the keys of both, b's value where both have the key
DictMerge(a, b) ==
  [k \in (DOMAIN a) \cup (DOMAIN b) |-> IF k \in DOMAIN b THEN b[k] ELSE a[k]]

EmptyDict == [k \in {} |-> 0]

None == [none |-> TRUE]

\* faulty variant: the element is left in the list
Pop_KeepsElement(s, idx) == s

\* list.pop(idx) on the 0-based index idx
Pop(s, idx) == [k \in 1..(Len(s) - 1) |-> IF k <= idx THEN s[k] ELSE s[k + 1]]

\* graph.nodes[idx] = n on the 0-based index idx
SetAt(s, idx, n) == [s EXCEPT ![idx + 1] = n]

\* the list without the elements at the 0-based indices in drop, order kept
RECURSIVE DropIndices(_, _, _)
DropIndices(s, drop, k) ==
  IF k > Len(s) THEN <<>>
  ELSE IF (k - 1) \in drop THEN DropIndices(s, drop, k + 1)
  ELSE <<s[k]>> \o DropIndices(s, drop, k + 1)

(***************************************************************************)
(* GraphNode                                                               *)
(***************************************************************************)
GraphNode(id, op_type, name, inputs, outputs, attributes) ==
  [id |-> id, op_type |-> op_type, name |-> name,
   inputs |-> inputs, outputs |-> outputs, attributes |-> attributes,
   execution_time_ms |-> 0, memory_usage_mb |-> 0]

(***************************************************************************)
(* CompilationStats.__init__ (compilation_time_ms, a wall-clock reading,   *)
(* is left out: no pass reads it).                                         *)
(***************************************************************************)
CompilationStats ==
  [original_ops |-> 0, optimized_ops |-> 0, ops_fused |-> 0,
   constants_folded |-> 0, dead_ops_removed |-> 0]

(***************************************************************************)
(* ModelCompiler._constant_folding: one sweep in list order.  The set of   *)
(* constant tensors starts empty; a node whose inputs are all in the set   *)
(* and whose kind is ADD or MUL is marked for removal and its outputs join *)
(* the set.  The marked nodes are then popped.                             *)
(***************************************************************************)
RECURSIVE FoldSweep(_, _, _, _)
FoldSweep(ns, i, constant_tensors, nodes_to_remove) ==
  IF i >= Len(ns) THEN nodes_to_remove
  ELSE LET node == ns[i + 1]
           all_inputs_constant ==
             \A k \in 1..Len(node.inputs) : node.inputs[k] \in constant_tensors
       IN IF all_inputs_constant /\ node.op_type \in {"ADD", "MUL"}
          THEN FoldSweep(ns, i + 1, constant_tensors \cup Range(node.outputs),
                         nodes_to_remove \cup {i})
          ELSE FoldSweep(ns, i + 1, constant_tensors, nodes_to_remove)

\* faulty variant: every ADD and MUL node is marked, whatever it reads
NodesToRemove_EveryAddMul(ns) ==
  {i \in 0..(Len(ns) - 1) : ns[i + 1].op_type \in {"ADD", "MUL"}}

NodesToRemove(ns) == FoldSweep(ns, 0, {}, {})

\* faulty variant: the marked nodes are counted but not popped
ConstantFoldingNodes_NoPop(ns) == ns

ConstantFoldingNodes(ns) == DropIndices(ns, NodesToRemove(ns), 1)

(***************************************************************************)
(* ModelCompiler._dead_code_elimination: the worklist loop, then the       *)
(* filter.  MarkInputs is the loop over node.inputs, ScanNodes the loop    *)
(* over graph.nodes for one popped tensor id, Worklist the while loop.     *)
(* st is the pair [reachable, worklist].                                   *)
(***************************************************************************)
RECURSIVE MarkInputs(_, _, _)
MarkInputs(inputs, k, st) ==
  IF k > Len(inputs) THEN st
  ELSE IF inputs[k] \notin st.reachable
       THEN MarkInputs(inputs, k + 1,
                       [reachable |-> st.reachable \cup {inputs[k]},
                        worklist |-> Append(st.worklist, inputs[k])])
       ELSE MarkInputs(inputs, k + 1, st)

\* faulty variant: the inputs of every node are marked, whatever it produces
RECURSIVE ScanNodes_EveryNode(_, _, _, _)
ScanNodes_EveryNode(ns, j, tensor_id, st) ==
  IF j > Len(ns) THEN st
  ELSE ScanNodes_EveryNode(ns, j + 1, tensor_id, MarkInputs(ns[j].inputs, 1, st))

RECURSIVE ScanNodes(_, _, _, _)
ScanNodes(ns, j, tensor_id, st) ==
  IF j > Len(ns) THEN st
  ELSE IF tensor_id \in Range(ns[j].outputs)
       THEN ScanNodes(ns, j + 1, tensor_id, MarkInputs(ns[j].inputs, 1, st))
       ELSE ScanNodes(ns, j + 1, tensor_id, st)

RECURSIVE Worklist(_, _)
Worklist(ns, st) ==
  IF st.worklist = <<>> THEN st.reachable
  ELSE LET tensor_id == st.worklist[Len(st.worklist)]
           popped == [st EXCEPT !.worklist = SubSeq(st.worklist, 1, Len(st.worklist) - 1)]
       IN Worklist(ns, ScanNodes(ns, 1, tensor_id, popped))

Reachable(ns, outs) ==
  Worklist(ns, [reachable |-> Range(outs), worklist |-> outs])

\* faulty variant: the filter tests the node's inputs instead of its outputs
DeadCodeEliminationNodes_TestsInputs(ns, outs) ==
  LET reachable == Reachable(ns, outs)
  IN SelectSeq(ns, LAMBDA node : \E k \in 1..Len(node.inputs) :
                                    node.inputs[k] \in reachable)

DeadCodeEliminationNodes(ns, outs) ==
  LET reachable == Reachable(ns, outs)
  IN SelectSeq(ns, LAMBDA node : \E k \in 1..Len(node.outputs) :
                                    node.outputs[k] \in reachable)

(***************************************************************************)
(* ModelCompiler._can_fuse, _can_fuse_triple                               *)
(***************************************************************************)
CanFuse(node1, node2) ==
  /\ Len(node1.outputs) = 1
  /\ Len(node2.inputs) = 1
  /\ node1.outputs[1] = node2.inputs[1]

CanFuseTriple(node1, node2, node3) ==
  CanFuse(node1, node2) /\ CanFuse(node2, node3)

(***************************************************************************)
(* The three node constructors of the fusion pass.  A name is a tuple of   *)
(* tokens (an f-string is the concatenation of its parts).                 *)
(***************************************************************************)
\* faulty variant: the fused node keeps the MatMul's outputs
FuseMatmulActivation_KeepsMatmulOutputs(matmul, activation, fused_type) ==
  GraphNode(matmul.id, fused_type,
            <<"fused">> \o matmul.name \o activation.name,
            matmul.inputs, matmul.outputs, matmul.attributes)

FuseMatmulActivation(matmul, activation, fused_type) ==
  GraphNode(matmul.id, fused_type,
            <<"fused">> \o matmul.name \o activation.name,
            matmul.inputs, activation.outputs, matmul.attributes)

\* faulty variant: the fused node reads what the attention writes
FuseLayernormAttention_ReadsOwnOutputs(layernorm, attention) ==
  GraphNode(layernorm.id, "FUSED_LAYERNORM_ATTENTION",
            <<"fused_ln_attn", ToString(layernorm.id)>>,
            attention.outputs, attention.outputs,
            DictMerge(layernorm.attributes, attention.attributes))

FuseLayernormAttention(layernorm, attention) ==
  GraphNode(layernorm.id, "FUSED_LAYERNORM_ATTENTION",
            <<"fused_ln_attn", ToString(layernorm.id)>>,
            layernorm.inputs, attention.outputs,
            DictMerge(layernorm.attributes, attention.attributes))

\* faulty variant: the fused node takes the ReLU's id
FuseConvBnRelu_TakesReluId(conv, bn, relu) ==
  GraphNode(relu.id, "FUSED_CONV_BATCHNORM_RELU",
            <<"fused_conv_bn_relu", ToString(conv.id)>>,
            conv.inputs, relu.outputs,
            DictMerge(conv.attributes, bn.attributes))

FuseConvBnRelu(conv, bn, relu) ==
  GraphNode(conv.id, "FUSED_CONV_BATCHNORM_RELU",
            <<"fused_conv_bn_relu", ToString(conv.id)>>,
            conv.inputs, relu.outputs,
            DictMerge(conv.attributes, bn.attributes))

(***************************************************************************)
(* ModelCompiler._operator_fusion: the while loop over the 0-based index   *)
(* i.  A fusion overwrites position i, pops the consumed nodes and         *)
(* continues WITHOUT advancing i; otherwise i advances by one.  The result *)
(* is the node list and the number added to stats.ops_fused.               *)
(***************************************************************************)
MatchMatmulRelu(ns, i) ==
  /\ ns[i + 1].op_type = "MATMUL"
  /\ ns[i + 2].op_type = "RELU"
  /\ CanFuse(ns[i + 1], ns[i + 2])

MatchMatmulGelu(ns, i) ==
  /\ ns[i + 1].op_type = "MATMUL"
  /\ ns[i + 2].op_type = "GELU"
  /\ CanFuse(ns[i + 1], ns[i + 2])

\* faulty variant: the rule forgets MULTI_HEAD_ATTENTION
MatchLayernormAttention_OnlyAttention(ns, i) ==
  /\ ns[i + 1].op_type = "LAYERNORM"
  /\ ns[i + 2].op_type = "ATTENTION"
  /\ CanFuse(ns[i + 1], ns[i + 2])

MatchLayernormAttention(ns, i) ==
  /\ ns[i + 1].op_type = "LAYERNORM"
  /\ ns[i + 2].op_type \in {"ATTENTION", "MULTI_HEAD_ATTENTION"}
  /\ CanFuse(ns[i + 1], ns[i + 2])

MatchConvBnRelu(ns, i) ==
  /\ i < Len(ns) - 2
  /\ ns[i + 1].op_type = "CONV2D"
  /\ ns[i + 2].op_type = "BATCHNORM"
  /\ ns[i + 3].op_type = "RELU"
  /\ CanFuseTriple(ns[i + 1], ns[i + 2], ns[i + 3])

\* faulty variant: a MatMul is fused with the ReLU one position further on
RECURSIVE FusionLoop_ReachesOver(_, _, _)
FusionLoop_ReachesOver(ns, i, fused) ==
  IF ~(i < Len(ns) - 1) THEN [nodes |-> ns, ops_fused |-> fused]
  ELSE IF /\ i < Len(ns) - 2
          /\ ns[i + 1].op_type = "MATMUL"
          /\ ns[i + 3].op_type = "RELU"
          /\ CanFuse(ns[i + 1], ns[i + 3])
       THEN FusionLoop_ReachesOver(
              Pop(SetAt(ns, i, FuseMatmulActivation(ns[i + 1], ns[i + 3],
                                                    "FUSED_MATMUL_RELU")), i + 2),
              i, fused + 1)
  ELSE FusionLoop_ReachesOver(ns, i + 1, fused)

RECURSIVE FusionLoop(_, _, _)
FusionLoop(ns, i, fused) ==
  IF ~(i < Len(ns) - 1) THEN [nodes |-> ns, ops_fused |-> fused]
  ELSE IF MatchMatmulRelu(ns, i)
       THEN FusionLoop(
              Pop(SetAt(ns, i, FuseMatmulActivation(ns[i + 1], ns[i + 2],
                                                    "FUSED_MATMUL_RELU")), i + 1),
              i, fused + 1)
  ELSE IF MatchMatmulGelu(ns, i)
       THEN FusionLoop(
              Pop(SetAt(ns, i, FuseMatmulActivation(ns[i + 1], ns[i + 2],
                                                    "FUSED_MATMUL_GELU")), i + 1),
              i, fused + 1)
  ELSE IF MatchLayernormAttention(ns, i)
       THEN FusionLoop(
              Pop(SetAt(ns, i, FuseLayernormAttention(ns[i + 1], ns[i + 2])), i + 1),
              i, fused + 1)
  ELSE IF MatchConvBnRelu(ns, i)
       THEN FusionLoop(
              Pop(Pop(SetAt(ns, i, FuseConvBnRelu(ns[i + 1], ns[i + 2], ns[i + 3])),
                      i + 2), i + 1),
              i, fused + 2)
  ELSE FusionLoop(ns, i + 1, fused)

\* faulty variant: the sweep starts at the second position
OperatorFusion_FromSecond(ns) == FusionLoop(ns, 1, 0)

OperatorFusion(ns) == FusionLoop(ns, 0, 0)

(***************************************************************************)
(* ModelCompiler._layout_optimization and _kernel_fusion_experimental      *)
(* return their argument.                                                  *)
(***************************************************************************)
\* faulty variant: the pass returns the list in reverse order
LayoutOptimizationNodes_Reversed(ns) == [k \in 1..Len(ns) |-> ns[Len(ns) + 1 - k]]

LayoutOptimizationNodes(ns) == ns

\* faulty variant: the experimental pass drops the last node
KernelFusionExperimentalNodes_DropsLast(ns) == SubSeq(ns, 1, Len(ns) - 1)

KernelFusionExperimentalNodes(ns) == ns

(***************************************************************************)
(* State.  nodes, tensors, input_ids, output_ids and optimized are the     *)
(* fields of the one ComputationalGraph the caller holds; compile()        *)
(* returns that same object.  optimization_level and stats are the fields  *)
(* of the ModelCompiler.  pc is the position inside compile() ("idle"      *)
(* outside it).  entry_nodes is the node list as it was when the running   *)
(* (or last) compile() was entered; built_well_formed records whether the  *)
(* graph the caller built satisfied the invariants of the data model       *)
(* (single assignment, no dependency cycle).  profile is the report the    *)
(* last profile_graph() returned to the caller (None before the first).    *)
(***************************************************************************)
VARIABLES nodes, tensors, input_ids, output_ids, optimized,
          optimization_level, stats, pc, entry_nodes, built_well_formed, passes,
          added, ops, exec_optimized, tensor_storage, exec_pc, profile

vars == <<nodes, tensors, input_ids, output_ids, optimized,
          optimization_level, stats, pc, entry_nodes, built_well_formed, passes,
          added, ops, exec_optimized, tensor_storage, exec_pc, profile>>

\* the fields of the ExecutionGraph, which compile() does not touch
executionVars == <<ops, exec_optimized, tensor_storage, exec_pc>>

\* the variables of the ComputationalGraph and its ModelCompiler
compilerVars == <<nodes, tensors, input_ids, output_ids, optimized,
                  optimization_level, stats, pc, entry_nodes, built_well_formed, passes,
                  added>>

graphFrame ==
  <<tensors, input_ids, output_ids, optimization_level, built_well_formed, added>>

(***************************************************************************)
(* The invariants of the data model (section 3 of the specification).      *)
(***************************************************************************)
\* the tensors some node of the list produces
Produced(ns) == UNION {Range(ns[k].outputs) : k \in 1..Len(ns)}

\* single static assignment: no tensor is listed as an output twice, and no
\* graph input is produced by a node
SSA(ns) ==
  /\ \A k1, k2 \in 1..Len(ns) : \A m1 \in 1..Len(ns[k1].outputs) :
       \A m2 \in 1..Len(ns[k2].outputs) :
         (ns[k1].outputs[m1] = ns[k2].outputs[m2]) => (k1 = k2 /\ m1 = m2)
  /\ Produced(ns) \cap Range(input_ids) = {}

\* backward reachability: the least set that contains S and, with a tensor, the
\* inputs of every node that produces it
RECURSIVE BackwardClosure(_, _)
BackwardClosure(ns, S) ==
  LET more == UNION {Range(ns[k].inputs) :
                       k \in {k \in 1..Len(ns) : Range(ns[k].outputs) \cap S # {}}}
  IN IF more \subseteq S THEN S ELSE BackwardClosure(ns, S \cup more)

Live(ns, outs) == BackwardClosure(ns, Range(outs))

\* no node's inputs transitively depend on its own outputs
Acyclic(ns) ==
  \A k \in 1..Len(ns) :
    Range(ns[k].outputs) \cap BackwardClosure(ns, Range(ns[k].inputs)) = {}

WellFormed(ns) == SSA(ns) /\ Acyclic(ns)

(***************************************************************************)
(* ExecutionGraph.__init__: no ops, not optimized; tensor_storage is the   *)
(* store the last execute() returned, exec_pc where its caller stands.     *)
(***************************************************************************)
ExecutionGraphInit ==
  /\ ops = <<>>
  /\ exec_optimized = FALSE
  /\ tensor_storage = EmptyDict
  /\ exec_pc = "idle"

(***************************************************************************)
(* The graphs a caller builds.  Node p of the list (1-based) has id p - 1  *)
(* and name "n<id>", as in create_sample_graph.  Tensor 0 is the graph     *)
(* input, tensor p the first output of node p, tensor p + n its second     *)
(* output if it has one; LiteralIds are tensors of the table that no node  *)
(* produces and the caller does not supply (weights, literals).            *)
(***************************************************************************)
NodeName(id) == <<"n" \o ToString(id)>>

LiteralIds == {100, 101, 102}

\* attributes by kind, after create_sample_graph's {"num_heads": 8}; a node
\* without inputs carries its literal under "value"
AttributesOf(kind, inputs) ==
  IF inputs = <<>> THEN [k \in {"value"} |-> 1]
  ELSE IF kind \in {"ATTENTION", "MULTI_HEAD_ATTENTION"} THEN [k \in {"num_heads"} |-> 8]
  ELSE IF kind = "LAYERNORM" THEN [k \in {"eps"} |-> 1]
  ELSE IF kind = "BATCHNORM" THEN [k \in {"eps", "momentum"} |-> 2]
  ELSE IF kind = "CONV2D" THEN [k \in {"stride", "eps"} |-> 1]
  ELSE IF kind \in {"RELU", "GELU"} THEN [k \in {"inplace"} |-> 1]
  ELSE EmptyDict

MkNodes(n, kinds, ins, outs) ==
  [p \in 1..n |-> GraphNode(p - 1, kinds[p], NodeName(p - 1), ins[p], outs[p],
                            AttributesOf(kinds[p], ins[p]))]

TensorShape == [dims |-> <<1, 512>>, dtype |-> "FP16"]

TensorTable == [t \in (0..(2 * MaxNodes)) \cup LiteralIds |-> TensorShape]

Prev(p) == p - 1
Tap(p) == IF p >= 2 THEN p - 2 ELSE 0
Fwd(p, n) == IF p < n THEN p + 1 ELSE p

\* the declared outputs: the last tensor, alone or with another one
OutputIdsOf(n) == {<<n>>, <<1, n>>, <<n - 1, n>>}

\* family A1: folding, program order, taps and cycles, single-output SSA nodes
KindsA1 == {"ADD", "MATMUL", "RELU"}
InputsA1(p, n) == {<<>>, <<Prev(p)>>, <<Tap(p)>>, <<Fwd(p, n)>>}

InitA1 ==
  \E n \in 1..MaxNodes :
    \E ks \in [1..n -> KindsA1], c \in [1..n -> 1..4], o \in OutputIdsOf(n) :
      /\ nodes = MkNodes(n, ks,
                         [p \in 1..n |-> CASE c[p] = 1 -> <<>>
                                           [] c[p] = 2 -> <<Prev(p)>>
                                           [] c[p] = 3 -> <<Tap(p)>>
                                           [] OTHER -> <<Fwd(p, n)>>],
                         [p \in 1..n |-> <<p>>])
      /\ output_ids = o

\* family A2: arities, nodes with two outputs, tensors with two producers
KindsA2 == {"MATMUL", "RELU"}

InitA2 ==
  \E n \in 1..MaxNodes :
    \E ks \in [1..n -> KindsA2], ci \in [1..n -> 1..2], co \in [1..n -> 1..3],
       o \in OutputIdsOf(n) :
      /\ nodes = MkNodes(n, ks,
                         [p \in 1..n |-> IF ci[p] = 1 THEN <<Prev(p)>> ELSE <<Prev(p), 0>>],
                         [p \in 1..n |-> CASE co[p] = 1 -> <<p>>
                                           [] co[p] = 2 -> <<p, p + n>>
                                           [] OTHER -> <<1>>])
      /\ output_ids = o

\* family B: chains of every kind the fusion rules name, plus one they do not
KindsB == {"MATMUL", "CONV2D", "RELU", "GELU", "SOFTMAX", "LAYERNORM",
           "BATCHNORM", "ATTENTION", "MULTI_HEAD_ATTENTION"}

InitB ==
  \E n \in 0..MaxNodes :
    \E ks \in [1..n -> KindsB], o \in OutputIdsOf(n) :
      /\ nodes = MkNodes(n, ks, [p \in 1..n |-> <<Prev(p)>>], [p \in 1..n |-> <<p>>])
      /\ output_ids = o

\* the graphs of the specification's scenarios 1, 2 and 3 (a is tensor 0, b, w,
\* lit1 and lit2 are literal tensors); Identity is no OpType, SOFTMAX stands in
Scenario1 ==
  [nodes |-> MkNodes(2, <<"MATMUL", "RELU">>, << <<0, 100>>, <<1>> >>, << <<1>>, <<2>> >>),
   output_ids |-> <<2>>]

Scenario2 ==
  [nodes |-> MkNodes(3, <<"MATMUL", "RELU", "SOFTMAX">>,
                     << <<0, 100>>, <<1>>, <<1>> >>, << <<1>>, <<2>>, <<3>> >>),
   output_ids |-> <<2, 3>>]

Scenario3 ==
  [nodes |-> MkNodes(2, <<"ADD", "MATMUL">>, << <<101, 102>>, <<1, 100>> >>,
                     << <<1>>, <<2>> >>),
   output_ids |-> <<2>>]

InitScenario ==
  \E g \in {Scenario1, Scenario2, Scenario3} :
    nodes = g.nodes /\ output_ids = g.output_ids

Init ==
  /\ InitA1 \/ InitA2 \/ InitB \/ InitScenario
  /\ tensors = TensorTable
  /\ input_ids = <<0>>
  /\ optimized = FALSE
  /\ optimization_level \in 0..3
  /\ stats = CompilationStats
  /\ pc = "idle"
  /\ entry_nodes = nodes
  /\ built_well_formed = WellFormed(nodes)
  /\ passes = <<>>
  /\ added = 0
  /\ ExecutionGraphInit
  /\ profile = None

(***************************************************************************)
(* compile(): one action per statement group, in the order of the code.    *)
(***************************************************************************)
\* faulty variant: from level 2 on the call goes straight to the fusion passes
AfterEnter_StraightToFusion ==
  IF optimization_level >= 2 THEN "operator_fusion"
  ELSE IF optimization_level >= 1 THEN "constant_folding" ELSE "finish"

AfterEnter == IF optimization_level >= 1 THEN "constant_folding" ELSE "finish"
\* faulty variant: the fusion passes are selected from level 1 on
AfterDce_FromLevel1 == IF optimization_level >= 1 THEN "operator_fusion" ELSE "finish"

AfterDce == IF optimization_level >= 2 THEN "operator_fusion" ELSE "finish"
\* faulty variant: the call does not get past the layout pass
AfterLayout_Hangs == "hung"

AfterLayout == IF optimization_level >= 3 THEN "kernel_fusion_experimental" ELSE "finish"

CompileEnter ==
  /\ pc = "idle"
  /\ stats' = [stats EXCEPT !.original_ops = Len(nodes)]
  /\ entry_nodes' = nodes
  /\ pc' = AfterEnter
  /\ passes' = <<>>
  /\ UNCHANGED <<nodes, optimized, graphFrame, executionVars, profile>>

ConstantFolding ==
  /\ pc = "constant_folding"
  /\ nodes' = ConstantFoldingNodes(nodes)
  /\ stats' = [stats EXCEPT !.constants_folded = @ + Cardinality(NodesToRemove(nodes))]
  /\ pc' = "dead_code_elimination"
  /\ passes' = Append(passes, "constant_folding")
  /\ UNCHANGED <<optimized, entry_nodes, graphFrame, executionVars, profile>>

DeadCodeElimination ==
  /\ pc = "dead_code_elimination"
  /\ nodes' = DeadCodeEliminationNodes(nodes, output_ids)
  /\ stats' = [stats EXCEPT !.dead_ops_removed = @ + (Len(nodes) - Len(nodes'))]
  /\ pc' = AfterDce
  /\ passes' = Append(passes, "dead_code_elimination")
  /\ UNCHANGED <<optimized, entry_nodes, graphFrame, executionVars, profile>>

OperatorFusionPass ==
  /\ pc = "operator_fusion"
  /\ nodes' = OperatorFusion(nodes).nodes
  /\ stats' = [stats EXCEPT !.ops_fused = @ + OperatorFusion(nodes).ops_fused]
  /\ pc' = "layout_optimization"
  /\ passes' = Append(passes, "operator_fusion")
  /\ UNCHANGED <<optimized, entry_nodes, graphFrame, executionVars, profile>>

LayoutOptimization ==
  /\ pc = "layout_optimization"
  /\ nodes' = LayoutOptimizationNodes(nodes)
  /\ pc' = AfterLayout
  /\ passes' = Append(passes, "layout_optimization")
  /\ UNCHANGED <<stats, optimized, entry_nodes, graphFrame, executionVars, profile>>

KernelFusionExperimental ==
  /\ pc = "kernel_fusion_experimental"
  /\ nodes' = KernelFusionExperimentalNodes(nodes)
  /\ pc' = "finish"
  /\ passes' = Append(passes, "kernel_fusion_experimental")
  /\ UNCHANGED <<stats, optimized, entry_nodes, graphFrame, executionVars, profile>>

CompileFinish ==
  /\ pc = "finish"
  /\ stats' = [stats EXCEPT !.optimized_ops = Len(nodes)]
  /\ optimized' = TRUE
  /\ pc' = "idle"
  /\ UNCHANGED <<nodes, entry_nodes, passes, graphFrame, executionVars, profile>>

Next ==
  \/ CompileEnter
  \/ ConstantFolding
  \/ DeadCodeElimination
  \/ OperatorFusionPass
  \/ LayoutOptimization
  \/ KernelFusionExperimental
  \/ CompileFinish

Spec == Init /\ [][Next]_vars

(***************************************************************************)
(* Adding a node.  ComputationalGraph has no add_node method: its nodes    *)
(* field is a plain list, and a caller adds a node with                    *)
(* graph.nodes.append(node), between two calls of the compiler.  The new   *)
(* node reads the graph input or the last node's first output and produces *)
(* a tensor no node produces yet; added counts the appends.                 *)
(***************************************************************************)
NextTensorId(ns) ==
  1 + (CHOOSE m \in Produced(ns) \cup {0} : \A t \in Produced(ns) \cup {0} : t <= m)

AddedKinds == {"RELU", "MATMUL"}

\* the number of nodes a caller appends to one graph in the model
MaxAdded == 1

AddNode ==
  /\ pc = "idle"
  /\ Len(nodes) < MaxNodes
  /\ added < MaxAdded
  /\ added' = added + 1
  /\ \E kind \in AddedKinds :
       \E inp \in {0} \cup (IF nodes = <<>> THEN {} ELSE {nodes[Len(nodes)].outputs[1]}) :
         nodes' = Append(nodes,
                         GraphNode(Len(nodes), kind, NodeName(Len(nodes)), <<inp>>,
                                   <<NextTensorId(nodes)>>, AttributesOf(kind, <<inp>>)))
  /\ UNCHANGED <<tensors, input_ids, output_ids, optimization_level, built_well_formed,
                 optimized, stats, pc, entry_nodes, passes, executionVars, profile>>

NextWithAddNode == Next \/ AddNode

SpecAddNode == Init /\ [][NextWithAddNode]_vars

(***************************************************************************)
(* Floating point.  profile_graph computes with Python floats (IEEE 754    *)
(* binary64, round to nearest, ties to even).  The times 5.0, 3.5, 0.5 and *)
(* their sums are multiples of 0.5 and exact, so the model keeps them as   *)
(* integers in tenths of a millisecond; a quotient or a product is rounded *)
(* to 53 significant bits.  A natural number too wide for one integer is   *)
(* the sequence of its digits in base 2^20, lowest first, without leading  *)
(* zeros; a float is [m, e] with 2^52 <= m < 2^53, standing for m * 2^e.   *)
(***************************************************************************)
Base == 1048576

RECURSIVE Pow2(_)
Pow2(t) == IF t = 0 THEN 1 ELSE 2 * Pow2(t - 1)

RECURSIVE BigNorm(_)
BigNorm(a) ==
  IF a # <<>> /\ a[Len(a)] = 0 THEN BigNorm(SubSeq(a, 1, Len(a) - 1)) ELSE a

RECURSIVE BigMulSmallFrom(_, _, _, _)
BigMulSmallFrom(a, c, k, carry) ==
  IF k > Len(a) THEN (IF carry = 0 THEN <<>> ELSE <<carry>>)
  ELSE LET p == a[k] * c + carry
       IN  <<p % Base>> \o BigMulSmallFrom(a, c, k + 1, p \div Base)

\* a * c, for 0 <= c <= 2047
BigMulSmall(a, c) == BigNorm(BigMulSmallFrom(a, c, 1, 0))

RECURSIVE BigShift(_, _)
BigShift(a, t) ==
  IF t >= 10 THEN BigShift(BigMulSmall(a, 1024), t - 10) ELSE BigMulSmall(a, Pow2(t))

RECURSIVE BigAddFrom(_, _, _, _)
BigAddFrom(a, b, k, carry) ==
  IF k > Len(a) /\ k > Len(b) THEN (IF carry = 0 THEN <<>> ELSE <<carry>>)
  ELSE LET s == (IF k <= Len(a) THEN a[k] ELSE 0)
                + (IF k <= Len(b) THEN b[k] ELSE 0) + carry
       IN  <<s % Base>> \o BigAddFrom(a, b, k + 1, s \div Base)

BigAdd(a, b) == BigAddFrom(a, b, 1, 0)

\* quotient and remainder of a by d, for 1 <= d <= 1024
RECURSIVE BigDivSmallFrom(_, _, _, _)
BigDivSmallFrom(a, d, k, r) ==
  IF k = 0 THEN [q |-> <<>>, r |-> r]
  ELSE LET cur == r * Base + a[k]
           rest == BigDivSmallFrom(a, d, k - 1, cur % d)
       IN  [q |-> Append(rest.q, cur \div d), r |-> rest.r]

BigDivSmall(a, d) ==
  LET res == BigDivSmallFrom(a, d, Len(a), 0)
  IN  [q |-> BigNorm(res.q), r |-> res.r]

RECURSIVE BigLessFrom(_, _, _)
BigLessFrom(a, b, k) ==
  IF k = 0 THEN FALSE
  ELSE IF a[k] # b[k] THEN a[k] < b[k]
  ELSE BigLessFrom(a, b, k - 1)

BigLess(a, b) ==
  IF Len(a) # Len(b) THEN Len(a) < Len(b) ELSE BigLessFrom(a, b, Len(a))

TwoTo52 == BigShift(<<1>>, 52)
TwoTo53 == BigShift(<<1>>, 53)
TwoTo59 == BigShift(<<1>>, 59)

\* the quotient q of a division by d that left the remainder r, rounded to
\* nearest with ties to even, as a float with exponent e
RoundNearestEven(q, r, d, e) ==
  LET up == 2 * r > d \/ (2 * r = d /\ q[1] % 2 = 1)
      m  == IF up THEN BigAdd(q, <<1>>) ELSE q
  IN  IF m = TwoTo53 THEN [m |-> TwoTo52, e |-> e + 1]
      ELSE [m |-> m, e |-> e]

\* the largest j with d * 2^j <= n, for n >= d
RECURSIVE ScaleDown(_, _, _)
ScaleDown(n, d, j) == IF 2 * d <= n THEN ScaleDown(n, 2 * d, j + 1) ELSE j

\* the smallest k with n * 2^k >= d
RECURSIVE ScaleUp(_, _, _)
ScaleUp(n, d, k) == IF n < d THEN ScaleUp(2 * n, d, k + 1) ELSE k

\* float(x) / float(y) for integers 1 <= x, y <= 512: the quotient is scaled
\* into [1, 2), divided out to 53 bits and rounded
FloatDiv(x, y) ==
  LET k  == ScaleUp(x, y, 0)
      n  == x * Pow2(k)
      j  == ScaleDown(n, y, 0)
      d  == y * Pow2(j)
      qr == BigDivSmall(BigMulSmall(TwoTo52, n), d)
  IN  RoundNearestEven(qr.q, qr.r, d, j - k - 52)

\* f * 100: the 59- or 60-bit product rounded back to 53 bits
FloatTimes100(f) ==
  LET p  == BigMulSmall(f.m, 100)
      s  == IF BigLess(p, TwoTo59) THEN 6 ELSE 7
      qr == BigDivSmall(p, Pow2(s))
  IN  RoundNearestEven(qr.q, qr.r, Pow2(s), f.e + s)

(***************************************************************************)
(* ModelCompiler.profile_graph: the loop over graph.nodes assigns          *)
(* node.execution_time_ms by kind (5.0, 3.5 or 0.5 ms; the model counts in *)
(* tenths of a millisecond).  The report it returns is computed from these *)
(* values; profile is the report the caller got from the last call.        *)
(***************************************************************************)
SimulatedTime(op_type) ==
  IF op_type \in {"MATMUL", "CONV2D"} THEN 50
  ELSE IF op_type \in FusedKinds THEN 35
  ELSE 5

\* faulty variant: the loop also fills in memory_usage_mb
ProfileGraphNodes_SetsMemory(ns) ==
  [k \in 1..Len(ns) |-> [ns[k] EXCEPT !.execution_time_ms = SimulatedTime(ns[k].op_type),
                                      !.memory_usage_mb = 1]]

ProfileGraphNodes(ns) ==
  [k \in 1..Len(ns) |-> [ns[k] EXCEPT !.execution_time_ms = SimulatedTime(ns[k].op_type)]]

\* profile_graph's op_times[op_name]: the times of the nodes of one kind
RECURSIVE SumTimes(_, _, _)
SumTimes(ns, op_name, k) ==
  IF k > Len(ns) THEN 0
  ELSE (IF ns[k].op_type = op_name THEN ns[k].execution_time_ms ELSE 0)
       + SumTimes(ns, op_name, k + 1)

CountTimes(ns, op_name) == Cardinality({k \in 1..Len(ns) : ns[k].op_type = op_name})

RECURSIVE TotalTime(_, _)
TotalTime(ns, k) ==
  IF k > Len(ns) THEN 0 ELSE ns[k].execution_time_ms + TotalTime(ns, k + 1)

\* faulty variant: a kind's total is divided by the number of all nodes
OpStats_AverageOverAllNodes(ns, op_name, total_time) ==
  [count |-> CountTimes(ns, op_name),
   total_time_ms |-> SumTimes(ns, op_name, 1),
   avg_time_ms |-> FloatDiv(SumTimes(ns, op_name, 1), 10 * Len(ns)),
   percentage |-> IF total_time > 0
                  THEN FloatTimes100(FloatDiv(SumTimes(ns, op_name, 1), total_time))
                  ELSE 0]

\* op_stats[op_name]; the average is in milliseconds, hence the divisor in tenths
OpStats(ns, op_name, total_time) ==
  [count |-> CountTimes(ns, op_name),
   total_time_ms |-> SumTimes(ns, op_name, 1),
   avg_time_ms |-> FloatDiv(SumTimes(ns, op_name, 1), 10 * CountTimes(ns, op_name)),
   percentage |-> IF total_time > 0
                  THEN FloatTimes100(FloatDiv(SumTimes(ns, op_name, 1), total_time))
                  ELSE 0]

\* the report profile_graph returns for the timed list ns
ProfileReport(ns) ==
  [total_execution_time_ms |-> TotalTime(ns, 1),
   total_memory_mb |-> 0,
   num_operations |-> Len(ns),
   op_breakdown |-> [op_name \in {ns[k].op_type : k \in 1..Len(ns)} |->
                       OpStats(ns, op_name, TotalTime(ns, 1))]]

ProfileGraph ==
  /\ pc = "idle"
  /\ nodes' = ProfileGraphNodes(nodes)
  /\ profile' = ProfileReport(ProfileGraphNodes(nodes))
  /\ UNCHANGED <<optimized, stats, pc, entry_nodes, passes, graphFrame, executionVars>>

NextWithProfile == Next \/ ProfileGraph

SpecProfile == Init /\ [][NextWithProfile]_vars

(***************************************************************************)
(* The execution dispatcher: class ExecutionGraph of                       *)
(* inference-subsystem/python-bindings/lightos_accelerated.py, the only    *)
(* code of the repository that executes a graph.  An op is a GraphOp       *)
(* record; a fusion loop overwrites the absorbed op by None and            *)
(* _eliminate_dead_ops drops the Nones.  Reading .op_type of None raises   *)
(* AttributeError, which leaves the call at that point.  exec_pc is        *)
(* "returned" after an execute() that returned, "raised" after a call that *)
(* raised, and "idle" otherwise.  A name is the sequence of its parts.     *)
(***************************************************************************)
ExecOpType ==
  {"MATMUL", "CONV2D", "RELU", "GELU", "SOFTMAX", "LAYERNORM", "ATTENTION",
   "FUSED_MATMUL_RELU", "FUSED_MATMUL_GELU", "FUSED_LAYERNORM_ATTENTION", "CUSTOM"}

GraphOp(op_type, name, inputs, outputs, custom_fn) ==
  [op_type |-> op_type, name |-> name, inputs |-> inputs, outputs |-> outputs,
   attributes |-> EmptyDict, custom_fn |-> custom_fn]

\* a custom function that stores a value under each of its output ids
StoreOutputs(storage, outputs) ==
  [t \in (DOMAIN storage) \cup Range(outputs) |-> IF t \in Range(outputs) THEN 1 ELSE storage[t]]

RECURSIVE ExecFuseMatmulActivation(_, _)
ExecFuseMatmulActivation(os, i) ==
  IF ~(i < Len(os)) THEN [ops |-> os, raised |-> FALSE]
  ELSE LET op1 == os[i]
           op2 == os[i + 1]
       IN  IF op1 = None THEN [ops |-> os, raised |-> TRUE]
           ELSE IF op1.op_type # "MATMUL" THEN ExecFuseMatmulActivation(os, i + 1)
           ELSE IF op2 = None THEN [ops |-> os, raised |-> TRUE]
           ELSE IF /\ op2.op_type \in {"RELU", "GELU"}
                   /\ Len(op1.outputs) = 1
                   /\ Len(op2.inputs) = 1
                   /\ op1.outputs[1] = op2.inputs[1]
                THEN LET fused_type == IF op2.op_type = "RELU" THEN "FUSED_MATMUL_RELU"
                                       ELSE "FUSED_MATMUL_GELU"
                         fused == [op1 EXCEPT !.op_type = fused_type,
                                              !.outputs = op2.outputs,
                                              !.name = <<"fused_">> \o op1.name \o <<"_">> \o op2.name]
                     IN  ExecFuseMatmulActivation(
                           [os EXCEPT ![i] = fused, ![i + 1] = None], i + 1)
                ELSE ExecFuseMatmulActivation(os, i + 1)

RECURSIVE ExecFuseLayernormAttention(_, _)
ExecFuseLayernormAttention(os, i) ==
  IF ~(i < Len(os)) THEN [ops |-> os, raised |-> FALSE]
  ELSE LET op1 == os[i]
           op2 == os[i + 1]
       IN  IF op1 = None THEN [ops |-> os, raised |-> TRUE]
           ELSE IF op1.op_type # "LAYERNORM" THEN ExecFuseLayernormAttention(os, i + 1)
           ELSE IF op2 = None THEN [ops |-> os, raised |-> TRUE]
           ELSE IF op2.op_type = "ATTENTION"
                THEN LET fused == [op1 EXCEPT !.op_type = "FUSED_LAYERNORM_ATTENTION",
                                              !.outputs = op2.outputs,
                                              !.name = <<"fused_ln_attn_", ToString(i - 1)>>]
                     IN  ExecFuseLayernormAttention(
                           [os EXCEPT ![i] = fused, ![i + 1] = None], i + 1)
                ELSE ExecFuseLayernormAttention(os, i + 1)

EliminateDeadOps(os) == SelectSeq(os, LAMBDA op : op # None)

\* optimize(): the ops it leaves, and whether it raised before optimized = True
ExecOptimize(os) ==
  LET a == ExecFuseMatmulActivation(os, 1)
      b == ExecFuseLayernormAttention(a.ops, 1)
  IN  IF a.raised THEN a
      ELSE IF b.raised THEN b
      ELSE [ops |-> EliminateDeadOps(b.ops), raised |-> FALSE]

\* _execute_op: the launch functions are empty, a custom op calls its function,
\* an op of any other kind falls through the if/elif chain
ExecuteOp(op, storage) ==
  IF op.op_type = "CUSTOM" /\ op.custom_fn = "store_outputs"
  THEN StoreOutputs(storage, op.outputs)
  ELSE storage

RECURSIVE ExecuteOps(_, _, _)
ExecuteOps(os, k, storage) ==
  IF k > Len(os) THEN storage
  ELSE ExecuteOps(os, k + 1, ExecuteOp(os[k], storage))

ExecAddedKinds == {"MATMUL", "RELU", "GELU", "LAYERNORM", "ATTENTION", "SOFTMAX", "CUSTOM"}

\* add_op(op), the caller's op reading tensor 0 or the tensor written last
AddOp ==
  /\ Len(ops) < MaxNodes
  /\ \E kind \in ExecAddedKinds : \E inp \in {0, Len(ops)} :
       \E custom_fn \in (IF kind = "CUSTOM" THEN {"None", "store_outputs"} ELSE {"None"}) :
         ops' = Append(ops, GraphOp(kind, NodeName(Len(ops)), <<inp>>, <<Len(ops) + 1>>, custom_fn))
  /\ exec_optimized' = FALSE
  /\ exec_pc' = "idle"
  /\ UNCHANGED <<tensor_storage, compilerVars, profile>>

Optimize ==
  /\ LET r == ExecOptimize(ops)
     IN  /\ ops' = r.ops
         /\ exec_optimized' = IF r.raised THEN exec_optimized ELSE TRUE
         /\ exec_pc' = IF r.raised THEN "raised" ELSE "idle"
  /\ UNCHANGED <<tensor_storage, compilerVars, profile>>

Execute ==
  /\ LET r == IF exec_optimized THEN [ops |-> ops, raised |-> FALSE] ELSE ExecOptimize(ops)
     IN  /\ ops' = r.ops
         /\ exec_optimized' = IF r.raised THEN exec_optimized ELSE TRUE
         /\ tensor_storage' = IF r.raised THEN tensor_storage
                              ELSE ExecuteOps(r.ops, 1, EmptyDict)
         /\ exec_pc' = IF r.raised THEN "raised" ELSE "returned"
  /\ UNCHANGED <<compilerVars, profile>>

NextExecution == AddOp \/ Optimize \/ Execute

InitExecution ==
  /\ nodes = Scenario1.nodes /\ output_ids = Scenario1.output_ids
  /\ tensors = TensorTable
  /\ input_ids = <<0>>
  /\ optimized = FALSE
  /\ optimization_level = 2
  /\ stats = CompilationStats
  /\ pc = "idle"
  /\ entry_nodes = nodes
  /\ built_well_formed = WellFormed(nodes)
  /\ passes = <<>>
  /\ added = 0
  /\ ExecutionGraphInit
  /\ profile = None

SpecExecution == InitExecution /\ [][NextExecution]_vars

(***************************************************************************)
(* Vocabulary of the properties (section 3 and the glossary of the         *)
(* specification).                                                         *)
(***************************************************************************)
\* fan-out: the number of node-inputs, across the whole list, that reference t
FanOut(ns, t) ==
  Cardinality(UNION {{<<k, m>> : m \in {m \in 1..Len(ns[k].inputs) : ns[k].inputs[m] = t}} :
                       k \in 1..Len(ns)})

\* the producer/consumer kinds of the pair rules and of the triple rule
PairRule(k1, k2) ==
  \/ k1 = "MATMUL" /\ k2 \in {"RELU", "GELU"}
  \/ k1 = "LAYERNORM" /\ k2 \in {"ATTENTION", "MULTI_HEAD_ATTENTION"}

FusedKindOf(k1, k2) ==
  IF k1 = "MATMUL" THEN (IF k2 = "RELU" THEN "FUSED_MATMUL_RELU" ELSE "FUSED_MATMUL_GELU")
  ELSE "FUSED_LAYERNORM_ATTENTION"

\* node c reads a tensor that node p produces
Feeds(p, c) == Range(p.outputs) \cap Range(c.inputs) # {}

\* p has exactly one output, c exactly one input, and they are the same tensor
Chained(p, c) ==
  Len(p.outputs) = 1 /\ Len(c.inputs) = 1 /\ p.outputs = c.inputs

\* a compile() call has returned
Returned == pc = "idle" /\ optimized

\* the tensors the caller must supply to run the list: read or declared as
\* output, and produced by no node
External(ns) ==
  ((UNION {Range(ns[k].inputs) : k \in 1..Len(ns)}) \cup Range(output_ids)) \ Produced(ns)

(***************************************************************************)
(* Symbolic evaluation with op kinds as uninterpreted functions.  The      *)
(* value of output j of a node is the term kind_j(values of its inputs); a *)
(* fused kind is the composition of the kinds it replaced (ATTENTION and   *)
(* MULTI_HEAD_ATTENTION, which FUSED_LAYERNORM_ATTENTION does not tell     *)
(* apart, are one symbol).  A tensor no node produces evaluates to itself  *)
(* if the caller supplies it (ext) and is undefined otherwise.             *)
(***************************************************************************)
Apply(kind, j, args) == [op |-> kind, idx |-> j, args |-> args]

KindTerm(kind, j, args) ==
  CASE kind = "FUSED_MATMUL_RELU" -> Apply("RELU", j, <<Apply("MATMUL", 1, args)>>)
    [] kind = "FUSED_MATMUL_GELU" -> Apply("GELU", j, <<Apply("MATMUL", 1, args)>>)
    [] kind = "FUSED_CONV_BATCHNORM_RELU" ->
         Apply("RELU", j, <<Apply("BATCHNORM", 1, <<Apply("CONV2D", 1, args)>>)>>)
    [] kind = "FUSED_LAYERNORM_ATTENTION" ->
         Apply("ATTENTION", j, <<Apply("LAYERNORM", 1, args)>>)
    [] kind = "MULTI_HEAD_ATTENTION" -> Apply("ATTENTION", j, args)
    [] OTHER -> Apply(kind, j, args)

RECURSIVE Val(_, _, _, _)
Val(ns, ext, t, fuel) ==
  LET prod == {k \in 1..Len(ns) : t \in Range(ns[k].outputs)}
  IN IF prod = {}
     THEN Apply(IF t \in ext THEN "supplied" ELSE "undefined", t, <<>>)
     ELSE IF fuel = 0 THEN Apply("cyclic", t, <<>>)
     ELSE LET k == CHOOSE k \in prod : \A k2 \in prod : k <= k2
              j == CHOOSE j \in 1..Len(ns[k].outputs) :
                     /\ ns[k].outputs[j] = t
                     /\ \A j2 \in 1..Len(ns[k].outputs) : ns[k].outputs[j2] = t => j <= j2
          IN KindTerm(ns[k].op_type, j,
                      [m \in 1..Len(ns[k].inputs) |-> Val(ns, ext, ns[k].inputs[m], fuel - 1)])

Value(ns, ext, t) == Val(ns, ext, t, Len(ns))

(***************************************************************************)
(* C1  Fusion never elides a tensor that is still read elsewhere: when the *)
(* fusion pass runs on a list in which a producer and a consumer match a   *)
(* pair rule and a tensor between them has fan-out > 1 across the whole    *)
(* list, both nodes are still in the list after the pass.                  *)
(***************************************************************************)
C1_FanOutBlocksFusion ==
  [][(pc = "operator_fusion" /\ WellFormed(nodes)) =>
       \A i, j \in 1..Len(nodes) :
         ( /\ PairRule(nodes[i].op_type, nodes[j].op_type)
           /\ Feeds(nodes[i], nodes[j])
           /\ \E t \in Range(nodes[i].outputs) \cap Range(nodes[j].inputs) :
                FanOut(nodes, t) > 1 )
         => (nodes[i] \in Range(nodes') /\ nodes[j] \in Range(nodes'))]_vars

(***************************************************************************)
(* C2  Graph outputs survive optimization: when compile() has returned,    *)
(* every tensor of output_ids that some node produced when the call was    *)
(* entered is still produced by some node.                                 *)
(***************************************************************************)
C2_OutputsSurvive ==
  (Returned /\ WellFormed(entry_nodes)) =>
    \A t \in Range(output_ids) :
      t \in Produced(entry_nodes) => t \in Produced(nodes)

(***************************************************************************)
(* C9  No partial corruption: when compile() has returned, either every    *)
(* tensor read by a remaining node and produced at entry is still          *)
(* produced, or the node list equals the one at entry.                     *)
(***************************************************************************)
C9_NoDanglingReference ==
  (Returned /\ WellFormed(entry_nodes)) =>
    \/ \A k \in 1..Len(nodes) : \A t \in Range(nodes[k].inputs) :
         t \in Produced(entry_nodes) => t \in Produced(nodes)
    \/ nodes = entry_nodes

(***************************************************************************)
(* C3  Soundness of optimization: when compile() has returned on a graph   *)
(* that was well formed (SSA, acyclic) at entry, every tensor of           *)
(* output_ids evaluates to the same term over the returned node list as    *)
(* over the node list at entry.                                            *)
(***************************************************************************)
C3_Soundness ==
  (Returned /\ WellFormed(entry_nodes)) =>
    \A t \in Range(output_ids) :
      Value(nodes, External(entry_nodes), t) = Value(entry_nodes, External(entry_nodes), t)

OneFused(ns, p, c, kind) ==
  Cardinality({k \in 1..Len(ns) :
                 /\ ns[k].id = p.id
                 /\ ns[k].op_type = kind
                 /\ ns[k].inputs = p.inputs
                 /\ ns[k].outputs = c.outputs}) = 1

FanOutOne(ns, p) == \A t \in Range(p.outputs) : FanOut(ns, t) = 1

Scenario1Result ==
  /\ Len(nodes) = 1
  /\ nodes[1].op_type = "FUSED_MATMUL_RELU"
  /\ nodes[1].inputs = <<0, 100>>
  /\ nodes[1].outputs = <<2>>

\* C5 as claimed: when compile() at level >= 2 has returned, every producer and
\* consumer of the entry list that match a pair rule, with fan-out one on the
\* tensors between them, have been replaced by one fused node (kind of the rule,
\* producer's inputs, consumer's outputs).  Stated here only for a producer
\* with inputs and one output, listed before a consumer with one input whose
\* output is declared in output_ids, on a well-formed graph.
C5_FusionShape_Original ==
  (Returned /\ optimization_level >= 2 /\ WellFormed(entry_nodes)) =>
    \A i, j \in 1..Len(entry_nodes) :
      LET p == entry_nodes[i]
          c == entry_nodes[j]
      IN ( /\ PairRule(p.op_type, c.op_type)
           /\ Feeds(p, c)
           /\ FanOutOne(entry_nodes, p)
           /\ i < j /\ p.inputs # <<>>
           /\ Len(p.outputs) = 1 /\ Len(c.inputs) = 1
           /\ Range(c.outputs) \cap Range(output_ids) # {} )
         => ( /\ OneFused(nodes, p, c, FusedKindOf(p.op_type, c.op_type))
              /\ p \notin Range(nodes)
              /\ c \notin Range(nodes) )

\* C5 as amended: when the fusion pass starts, every two (three) CONSECUTIVE
\* nodes that match a rule's kinds, are chained (one output, one input, the same
\* tensor) and have fan-out one on the tensors between them are replaced by exactly one node of the rule's fused
\* kind with the first node's inputs and the last node's outputs; and scenario 1
\* compiles to the single node FUSED_MATMUL_RELU [0,100] -> [2].
C5_FusionShape ==
  /\ [][pc = "operator_fusion" =>
          /\ \A i \in 1..(Len(nodes) - 1) :
               LET p == nodes[i]
                   c == nodes[i + 1]
               IN ( /\ PairRule(p.op_type, c.op_type)
                    /\ Chained(p, c)
                    /\ FanOutOne(nodes, p) )
                  => ( /\ OneFused(nodes', p, c, FusedKindOf(p.op_type, c.op_type))
                       /\ p \notin Range(nodes')
                       /\ c \notin Range(nodes') )
          /\ \A i \in 1..(Len(nodes) - 2) :
               LET p == nodes[i]
                   b == nodes[i + 1]
                   c == nodes[i + 2]
               IN ( /\ p.op_type = "CONV2D" /\ b.op_type = "BATCHNORM" /\ c.op_type = "RELU"
                    /\ Chained(p, b) /\ Chained(b, c)
                    /\ FanOutOne(nodes, p) /\ FanOutOne(nodes, b) )
                  => ( /\ OneFused(nodes', p, c, "FUSED_CONV_BATCHNORM_RELU")
                       /\ p \notin Range(nodes')
                       /\ b \notin Range(nodes')
                       /\ c \notin Range(nodes') )]_vars
  /\ []((Returned /\ optimization_level >= 2 /\ entry_nodes = Scenario1.nodes)
          => Scenario1Result)

C5_Witness ==
  /\ Returned /\ optimization_level = 2
  /\ entry_nodes = Scenario1.nodes
  /\ Scenario1Result
  /\ stats.ops_fused = 1

(***************************************************************************)
(* C6  DCE liveness.  Live(ns, output_ids) is backward reachability as the *)
(* specification defines it.                                               *)
(***************************************************************************)
HasLiveOutput(node, live) == Range(node.outputs) \cap live # {}

\* C6 as claimed: after the pass EVERY output tensor of every remaining node is live
C6_DceLiveness_Original ==
  [][pc = "dead_code_elimination" =>
       \A k \in 1..Len(nodes') :
         Range(nodes'[k].outputs) \subseteq Live(nodes', output_ids)]_vars

\* C6 as amended: after the dead-code-elimination pass every remaining node has
\* AT LEAST ONE output tensor that is backward-reachable from output_ids, and
\* every node that produced no live tensor has been removed.
C6_DceLiveness ==
  [][pc = "dead_code_elimination" =>
       /\ \A k \in 1..Len(nodes') : HasLiveOutput(nodes'[k], Live(nodes', output_ids))
       /\ \A k \in 1..Len(nodes) :
            ~HasLiveOutput(nodes[k], Live(nodes, output_ids))
              => nodes[k] \notin Range(nodes')]_vars

\* the pass has run, removed a node and kept a node one of whose outputs is dead
C6_Witness ==
  /\ pc \in {"operator_fusion", "finish"}
  /\ optimization_level >= 1
  /\ stats.dead_ops_removed > 0
  /\ \E k \in 1..Len(nodes) :
       /\ HasLiveOutput(nodes[k], Live(nodes, output_ids))
       /\ ~(Range(nodes[k].outputs) \subseteq Live(nodes, output_ids))

(***************************************************************************)
(* C7  Constant-folding completeness.  The constant tensors of a list are  *)
(* the least set that contains the outputs of every foldable (ADD, MUL)    *)
(* node all of whose inputs are in the set; a foldable node without inputs *)
(* is a literal producer and seeds it.                                     *)
(***************************************************************************)
RECURSIVE ConstantTensors(_, _)
ConstantTensors(ns, S) ==
  LET more == UNION {Range(ns[k].outputs) :
                       k \in {k \in 1..Len(ns) :
                                /\ ns[k].op_type \in {"ADD", "MUL"}
                                /\ Range(ns[k].inputs) \subseteq S}}
  IN IF more \subseteq S THEN S ELSE ConstantTensors(ns, S \cup more)

\* when compile() at level >= 1 has returned on a well-formed graph, no foldable
\* node remains all of whose inputs are constant tensors of the entry list
C7_FoldingComplete ==
  (Returned /\ optimization_level >= 1 /\ WellFormed(entry_nodes)) =>
    \A k \in 1..Len(nodes) :
      ~( /\ nodes[k].op_type \in {"ADD", "MUL"}
         /\ Range(nodes[k].inputs) \subseteq ConstantTensors(entry_nodes, {}) )

(***************************************************************************)
(* C8  Scenario 3: when compile() at level >= 1 has returned on            *)
(* [Add(lit1,lit2)->x, MatMul(x,w)->y] with outputs {y}, the Add node is   *)
(* gone, the MatMul node remains and x is produced by a node without       *)
(* inputs (a literal).                                                     *)
(***************************************************************************)
C8_Scenario3 ==
  (Returned /\ optimization_level >= 1 /\ entry_nodes = Scenario3.nodes) =>
    /\ \A k \in 1..Len(nodes) : nodes[k].op_type # "ADD"
    /\ \E k \in 1..Len(nodes) : nodes[k] = Scenario3.nodes[2]
    /\ \E k \in 1..Len(nodes) : nodes[k].inputs = <<>> /\ 1 \in Range(nodes[k].outputs)

(***************************************************************************)
(* C10  Pass selection by level: at level 0 no step of compile() changes   *)
(* the node list or a pass counter; below level 2 no fused node is created *)
(* and ops_fused does not change; the folding and DCE passes run only at   *)
(* level >= 1 and then both run, the fusion and layout passes only at      *)
(* level >= 2, the experimental pass only at level 3.                      *)
(***************************************************************************)
FusedNodes(ns) == {k \in 1..Len(ns) : ns[k].op_type \in FusedKinds}

C10_PassSelection ==
  /\ [][ /\ optimization_level = 0 =>
              /\ nodes' = nodes
              /\ stats'.constants_folded = stats.constants_folded
              /\ stats'.dead_ops_removed = stats.dead_ops_removed
              /\ stats'.ops_fused = stats.ops_fused
         /\ optimization_level < 2 =>
              /\ {nodes'[k] : k \in FusedNodes(nodes')} \subseteq Range(nodes)
              /\ stats'.ops_fused = stats.ops_fused ]_vars
  /\ [](pc \in {"constant_folding", "dead_code_elimination"} => optimization_level >= 1)
  /\ [](pc \in {"operator_fusion", "layout_optimization"} => optimization_level >= 2)
  /\ [](pc = "kernel_fusion_experimental" => optimization_level >= 3)
  /\ [][(pc = "idle" /\ pc' # "idle") =>
          pc' = (IF optimization_level >= 1 THEN "constant_folding" ELSE "finish")]_vars
  /\ [][pc = "constant_folding" => pc' = "dead_code_elimination"]_vars
  /\ [][(pc = "dead_code_elimination" /\ optimization_level >= 2) =>
          pc' = "operator_fusion"]_vars
  /\ [][pc = "operator_fusion" => pc' = "layout_optimization"]_vars

\* a level-1 compile() has folded a node and returned a graph that level 2
\* would have fused
C10_Witness ==
  /\ Returned /\ optimization_level = 1
  /\ stats.constants_folded > 0
  /\ \E i \in 1..(Len(nodes) - 1) :
       PairRule(nodes[i].op_type, nodes[i + 1].op_type) /\ Chained(nodes[i], nodes[i + 1])

(***************************************************************************)
(* C11  SSA is preserved: in every state of a compile() that was entered   *)
(* on a node list in which every tensor is produced at most once (and no   *)
(* graph input is produced by a node), every tensor is still produced at   *)
(* most once.                                                              *)
(***************************************************************************)
C11_SsaPreserved == SSA(entry_nodes) => SSA(nodes)

\* a compile() on an SSA list has fused and returned a list of two nodes or more
C11_Witness ==
  /\ Returned /\ SSA(entry_nodes) /\ SSA(nodes)
  /\ nodes # entry_nodes
  /\ FusedNodes(nodes) # {}
  /\ Len(nodes) >= 2

(***************************************************************************)
(* C13  Cyclic graphs are rejected at optimize time: outside a compile()   *)
(* call, a graph whose last compile() was entered on a cyclic node list is *)
(* not marked optimized and its node list is the one the call was entered  *)
(* on.                                                                     *)
(***************************************************************************)
C13_CyclicRejected ==
  (pc = "idle" /\ ~Acyclic(entry_nodes)) => (~optimized /\ nodes = entry_nodes)

(***************************************************************************)
(* C14  CompilationStats describes one optimization run: when compile()    *)
(* has returned, original_ops and optimized_ops are the lengths of the     *)
(* node list at entry and at return, and the nodes counted as folded,      *)
(* removed as dead and fused away (one per pair, two per triple) are the   *)
(* nodes this call took out of the list.                                   *)
(***************************************************************************)
C14_StatsPerRun ==
  (Returned /\ built_well_formed) =>
    /\ stats.original_ops = Len(entry_nodes)
    /\ stats.optimized_ops = Len(nodes)
    /\ stats.constants_folded + stats.dead_ops_removed + stats.ops_fused
         = Len(entry_nodes) - Len(nodes)

(***************************************************************************)
(* C17  Folding replaces rather than deletes: after the constant-folding   *)
(* pass, for every node the pass took out of the list the list holds a     *)
(* node without inputs that produces the same output tensors.              *)
(***************************************************************************)
C17_FoldingReplaces ==
  [][(pc = "constant_folding" /\ WellFormed(nodes)) =>
       \A k \in 1..Len(nodes) :
         nodes[k] \notin Range(nodes') =>
           \E j \in 1..Len(nodes') :
             nodes'[j].inputs = <<>> /\ nodes'[j].outputs = nodes[k].outputs]_vars

(***************************************************************************)
(* C20  Fused attributes are the union of the chain: after the fusion      *)
(* pass, the node that replaced a chain of consecutive nodes carries every *)
(* attribute key of every node of the chain.                               *)
(***************************************************************************)
\* the nodes of ns that replaced the chain starting at node p, with kind kind
FusedFrom(ns, p, kind) == {k \in 1..Len(ns) : ns[k].id = p.id /\ ns[k].op_type = kind}

C20_FusedAttributesUnion ==
  [][pc = "operator_fusion" =>
       /\ \A i \in 1..(Len(nodes) - 1) :
            LET p == nodes[i]
                c == nodes[i + 1]
            IN (PairRule(p.op_type, c.op_type) /\ Chained(p, c) /\ FanOutOne(nodes, p))
               => \A k \in FusedFrom(nodes', p, FusedKindOf(p.op_type, c.op_type)) :
                    (DOMAIN p.attributes) \cup (DOMAIN c.attributes)
                      \subseteq DOMAIN nodes'[k].attributes
       /\ \A i \in 1..(Len(nodes) - 2) :
            LET p == nodes[i]
                b == nodes[i + 1]
                c == nodes[i + 2]
            IN ( /\ p.op_type = "CONV2D" /\ b.op_type = "BATCHNORM" /\ c.op_type = "RELU"
                 /\ Chained(p, b) /\ Chained(b, c)
                 /\ FanOutOne(nodes, p) /\ FanOutOne(nodes, b) )
               => \A k \in FusedFrom(nodes', p, "FUSED_CONV_BATCHNORM_RELU") :
                    (DOMAIN p.attributes) \cup (DOMAIN b.attributes) \cup (DOMAIN c.attributes)
                      \subseteq DOMAIN nodes'[k].attributes]_vars

(***************************************************************************)
(* C18  DCE minimality.  A tensor is computable from a list if the caller  *)
(* supplies it or a node of the list produces it from computable inputs.   *)
(***************************************************************************)
RECURSIVE ComputableFrom(_, _)
ComputableFrom(ns, S) ==
  LET more == UNION {Range(ns[k].outputs) :
                       k \in {k \in 1..Len(ns) : Range(ns[k].inputs) \subseteq S}}
  IN IF more \subseteq S THEN S ELSE ComputableFrom(ns, S \cup more)

\* the list without its k-th node
Without(ns, k) == SubSeq(ns, 1, k - 1) \o SubSeq(ns, k + 1, Len(ns))

\* taking node k out of ns makes some tensor of output_ids no longer computable
Needed(ns, k) ==
  \E t \in Range(output_ids) :
    /\ t \in ComputableFrom(ns, External(ns))
    /\ t \notin ComputableFrom(Without(ns, k), External(ns))

\* C18 as claimed: after the dead-code-elimination pass every remaining node is
\* needed, also when two nodes list the same tensor among their outputs.
\* Stated here for lists without a dependency cycle.
C18_DceMinimal_Original ==
  [][(pc = "dead_code_elimination" /\ Acyclic(nodes)) =>
       \A k \in 1..Len(nodes') : Needed(nodes', k)]_vars

\* C18 as amended: after the dead-code-elimination pass on a list in which every
\* tensor has at most one producer and no node depends on its own outputs,
\* every remaining node is needed.
C18_DceMinimal ==
  [][(pc = "dead_code_elimination" /\ WellFormed(nodes)) =>
       \A k \in 1..Len(nodes') : Needed(nodes', k)]_vars

\* the pass has removed a node of a well-formed list and left two, each needed
C18_Witness ==
  /\ pc \in {"operator_fusion", "finish"}
  /\ WellFormed(entry_nodes)
  /\ stats.dead_ops_removed > 0
  /\ Len(nodes) >= 2
  /\ \A k \in 1..Len(nodes) : Needed(nodes, k)

(***************************************************************************)
(* C19  Pass ordering.  passes is the list of the passes the current (or   *)
(* last) compile() has run, in order.                                      *)
(***************************************************************************)
\* pass a ran, and pass b ran after it
RanAfter(a, b) ==
  \E i, j \in 1..Len(passes) : i < j /\ passes[i] = a /\ passes[j] = b

NoDeadNode(ns) == \A k \in 1..Len(ns) : HasLiveOutput(ns[k], Live(ns, output_ids))

\* C19 as claimed: when a compile() at level >= 2 has returned, a dead-code
\* elimination ran after the constant folding and another one after the
\* operator fusion, and the returned list holds no node all of whose outputs
\* are unreachable from output_ids
C19_PassOrdering_Original ==
  (Returned /\ optimization_level >= 2 /\ WellFormed(entry_nodes)) =>
    /\ RanAfter("constant_folding", "dead_code_elimination")
    /\ RanAfter("operator_fusion", "dead_code_elimination")
    /\ NoDeadNode(nodes)

\* C19 as amended: when a compile() at level >= 2 has returned on a well-formed
\* graph, dead-code elimination ran exactly once, right after the constant
\* folding and before the operator fusion, and the returned list holds no node
\* all of whose outputs are unreachable from output_ids
C19_PassOrdering ==
  (Returned /\ optimization_level >= 2 /\ WellFormed(entry_nodes)) =>
    /\ Len(passes) >= 4
    /\ SubSeq(passes, 1, 4) = <<"constant_folding", "dead_code_elimination",
                                "operator_fusion", "layout_optimization">>
    /\ \A i \in 5..Len(passes) : passes[i] # "dead_code_elimination"
    /\ NoDeadNode(nodes)

\* a level >= 2 compile() of a well-formed graph has removed a dead node, fused
\* a chain and returned
C19_Witness ==
  /\ Returned /\ optimization_level >= 2 /\ WellFormed(entry_nodes)
  /\ Len(passes) >= 4
  /\ Len(entry_nodes) = 3 /\ Len(nodes) = 1
  /\ FusedNodes(nodes) = {1}
  /\ NoDeadNode(nodes)

(***************************************************************************)
(* C12  Optimized-flag lifecycle: a newly constructed graph is not marked  *)
(* optimized; the step with which compile() returns marks it; a step that  *)
(* adds a node to the list leaves it unmarked.                             *)
(***************************************************************************)
C12_OptimizedFlagLifecycle ==
  /\ ~optimized
  /\ [][pc = "finish" => optimized']_vars
  /\ [][Len(nodes') > Len(nodes) => ~optimized']_vars

(***************************************************************************)
(* C15  Profiling is side-effect-free on the graph.  Under SpecProfile a   *)
(* step that starts and ends outside compile() (pc = "idle" before and     *)
(* after) is a call of profile_graph().                                    *)
(***************************************************************************)
ProfileCall == pc = "idle" /\ pc' = "idle"

\* C15 as claimed: the call leaves the node list with every field of every node,
\* the tensor table, input_ids, output_ids, the optimized flag and the
\* CompilationStats as they were
C15_ProfileSideEffectFree_Original ==
  [][ProfileCall =>
       /\ nodes' = nodes
       /\ tensors' = tensors /\ input_ids' = input_ids /\ output_ids' = output_ids
       /\ optimized' = optimized
       /\ stats' = stats]_vars

\* the fixed cost of a kind, in tenths of a millisecond
FixedCost(kind) ==
  CASE kind \in {"MATMUL", "CONV2D"} -> 50
    [] kind \in FusedKinds -> 35
    [] OTHER -> 5

\* C15 as amended: the call leaves the node list as it was but for the field
\* execution_time_ms of every node, which it sets to the fixed cost of the node's
\* kind; the tensor table, input_ids, output_ids, the optimized flag and the
\* CompilationStats are as they were
C15_ProfileSideEffectFree ==
  [][ProfileCall =>
       /\ Len(nodes') = Len(nodes)
       /\ \A k \in 1..Len(nodes) :
            /\ [nodes'[k] EXCEPT !.execution_time_ms = 0]
                 = [nodes[k] EXCEPT !.execution_time_ms = 0]
            /\ nodes'[k].execution_time_ms = FixedCost(nodes[k].op_type)
       /\ tensors' = tensors /\ input_ids' = input_ids /\ output_ids' = output_ids
       /\ optimized' = optimized
       /\ stats' = stats]_vars

\* a compiled graph with a fused node and another node has been profiled
C15_Witness ==
  /\ pc = "idle" /\ optimized
  /\ Len(nodes) >= 2
  /\ \E k \in 1..Len(nodes) : nodes[k].op_type \in FusedKinds
  /\ \A k \in 1..Len(nodes) : nodes[k].execution_time_ms = FixedCost(nodes[k].op_type)

(***************************************************************************)
(* C16  Unregistered operation kinds are rejected at dispatch.  The kinds  *)
(* _execute_op has a branch for are MATMUL, FUSED_MATMUL_RELU,             *)
(* FUSED_LAYERNORM_ATTENTION and, for an op carrying a custom function,    *)
(* CUSTOM.                                                                 *)
(***************************************************************************)
HasHandler(op) ==
  \/ op.op_type \in {"MATMUL", "FUSED_MATMUL_RELU", "FUSED_LAYERNORM_ATTENTION"}
  \/ op.op_type = "CUSTOM" /\ op.custom_fn # "None"

\* C16: an execute() that returned dispatched no op without a handler: a graph
\* holding such an op makes execute() fail, it does not skip the op
C16_UnknownOpRejected ==
  exec_pc = "returned" => \A k \in 1..Len(ops) : HasHandler(ops[k])

(***************************************************************************)
(* C21  Fusion reaches a fixpoint.  FusibleAt is stated from the rules     *)
(* (kinds of a pair or of the triple, each link a one-output/one-input     *)
(* chain), positions counted from 1.                                       *)
(***************************************************************************)
FusibleAt(ns, i) ==
  \/ /\ i + 1 <= Len(ns)
     /\ PairRule(ns[i].op_type, ns[i + 1].op_type)
     /\ Chained(ns[i], ns[i + 1])
  \/ /\ i + 2 <= Len(ns)
     /\ ns[i].op_type = "CONV2D"
     /\ ns[i + 1].op_type = "BATCHNORM"
     /\ ns[i + 2].op_type = "RELU"
     /\ Chained(ns[i], ns[i + 1])
     /\ Chained(ns[i + 1], ns[i + 2])

\* C21: the list the operator-fusion pass leaves has no position at which a
\* pair or a triple matches a fusion rule and passes the fusibility check
C21_FusionFixpoint ==
  [][pc = "operator_fusion" => \A i \in 1..Len(nodes') : ~FusibleAt(nodes', i)]_vars

\* the pass has fused a chain that was fusible and left a list of two nodes
C21_Witness ==
  /\ pc = "layout_optimization"
  /\ stats.ops_fused > 0
  /\ Len(nodes) = 2
  /\ \E k \in 1..Len(nodes) : nodes[k].op_type \in FusedKinds
  /\ \E k \in 1..Len(nodes) : nodes[k].op_type \notin FusedKinds

(***************************************************************************)
(* C22  Acyclicity and topological order are preserved.                    *)
(***************************************************************************)
\* every node stands after every node that produces one of its inputs
TopologicalOrder(ns) ==
  \A j, k \in 1..Len(ns) : Feeds(ns[k], ns[j]) => k < j

\* C22: at every point of a compile() and after it, the list is acyclic if the
\* list at entry was, and in topological order if the list at entry was
C22_AcyclicityPreserved ==
  /\ Acyclic(entry_nodes) => Acyclic(nodes)
  /\ TopologicalOrder(entry_nodes) => TopologicalOrder(nodes)

\* a compile() of an acyclic, topologically ordered list has fused a chain and
\* returned a list in which a node still reads another node's output
C22_Witness ==
  /\ Returned
  /\ Acyclic(entry_nodes) /\ TopologicalOrder(entry_nodes)
  /\ Len(nodes) < Len(entry_nodes)
  /\ \E k \in 1..Len(nodes) : nodes[k].op_type \in FusedKinds
  /\ \E j, k \in 1..Len(nodes) : Feeds(nodes[k], nodes[j])

(***************************************************************************)
(* C23  The layout pass never restructures nodes.                          *)
(***************************************************************************)
\* C23: the step of the layout pass leaves the node list as it was (length,
\* order, and every node's kind, inputs, outputs and attributes) and leaves
\* every compilation counter as it was
C23_LayoutKeepsNodes ==
  [][pc = "layout_optimization" =>
       /\ Len(nodes') = Len(nodes)
       /\ \A k \in 1..Len(nodes) :
            /\ nodes'[k].op_type = nodes[k].op_type
            /\ nodes'[k].inputs = nodes[k].inputs
            /\ nodes'[k].outputs = nodes[k].outputs
            /\ nodes'[k].attributes = nodes[k].attributes
       /\ stats' = stats]_vars

\* the layout pass has run on a list of two different nodes with attributes
C23_Witness ==
  /\ pc \in {"kernel_fusion_experimental", "finish"}
  /\ passes # <<>> /\ passes[Len(passes)] = "layout_optimization"
  /\ Len(nodes) >= 2
  /\ nodes[1].op_type # nodes[2].op_type
  /\ \E k \in 1..Len(nodes) : nodes[k].attributes # EmptyDict

(***************************************************************************)
(* C24  Profiler aggregation is consistent.  The sums below are exact: the *)
(* counts and the times are integers (tenths of a millisecond), a float is *)
(* m * 2^e and is compared after scaling both sides to integers.           *)
(***************************************************************************)
RECURSIVE SumOverKinds(_, _, _)
SumOverKinds(breakdown, kinds, field) ==
  IF kinds = {} THEN 0
  ELSE LET k == CHOOSE k \in kinds : TRUE
       IN  breakdown[k][field] + SumOverKinds(breakdown, kinds \ {k}, field)

\* the float f is exactly x / y
FloatIsRatio(f, x, y) ==
  IF f.e <= 0 THEN BigMulSmall(f.m, y) = BigShift(<<x>>, 0 - f.e)
  ELSE BigShift(BigMulSmall(f.m, y), f.e) = <<x>>

\* the least exponent among the percentages of the report
MinExponent(breakdown) ==
  CHOOSE e \in {breakdown[k].percentage.e : k \in DOMAIN breakdown} :
    \A k \in DOMAIN breakdown : e <= breakdown[k].percentage.e

\* the exact sum of the percentages, in units of 2^unit
RECURSIVE SumOfPercentages(_, _, _)
SumOfPercentages(breakdown, kinds, unit) ==
  IF kinds = {} THEN <<>>
  ELSE LET k == CHOOSE k \in kinds : TRUE
           p == breakdown[k].percentage
       IN  BigAdd(BigShift(p.m, p.e - unit),
                  SumOfPercentages(breakdown, kinds \ {k}, unit))

\* 100 in units of 2^unit, for unit <= 0
Hundred(unit) == BigShift(<<100>>, 0 - unit)

AggregatesConsistent(report) ==
  LET breakdown == report.op_breakdown
  IN  /\ SumOverKinds(breakdown, DOMAIN breakdown, "count") = report.num_operations
      /\ SumOverKinds(breakdown, DOMAIN breakdown, "total_time_ms")
           = report.total_execution_time_ms
      /\ \A k \in DOMAIN breakdown :
           FloatIsRatio(breakdown[k].avg_time_ms,
                        breakdown[k].total_time_ms, 10 * breakdown[k].count)

PercentagesSumExactly(report) ==
  LET breakdown == report.op_breakdown
      unit == MinExponent(breakdown)
  IN  SumOfPercentages(breakdown, DOMAIN breakdown, unit) = Hundred(unit)

\* the sum of the percentages is closer to 100 than 2^-40
PercentagesSumNearly(report) ==
  LET breakdown == report.op_breakdown
      unit == MinExponent(breakdown)
      sum  == SumOfPercentages(breakdown, DOMAIN breakdown, unit)
      tol  == BigShift(<<1>>, 0 - 40 - unit)
  IN  /\ BigLess(sum, BigAdd(Hundred(unit), tol))
      /\ BigLess(Hundred(unit), BigAdd(sum, tol))

\* C24 as claimed: in the report of profile_graph() the counts sum to
\* num_operations, the per-kind totals sum to total_execution_time_ms, each
\* average is the kind's total divided by its count, and for a non-empty graph
\* the percentages sum to 100
C24_ProfilerAggregation_Original ==
  profile # None =>
    /\ AggregatesConsistent(profile)
    /\ profile.num_operations > 0 => PercentagesSumExactly(profile)

\* C24 as amended: the same, but the percentages, each rounded to a double,
\* sum to 100 only up to rounding: their sum is within 2^-40 of 100
C24_ProfilerAggregation ==
  profile # None =>
    /\ AggregatesConsistent(profile)
    /\ profile.num_operations > 0 => PercentagesSumNearly(profile)

\* a report on three nodes of two kinds whose percentages do not sum to 100
C24_Witness ==
  /\ profile # None
  /\ profile.num_operations = 3
  /\ Cardinality(DOMAIN profile.op_breakdown) = 2
  /\ ~PercentagesSumExactly(profile)

(***************************************************************************)
(* C25  Counter accounting identity.  The compiler and the graph are       *)
(* created together, so the compile() that finds the graph not yet marked  *)
(* optimized is the first one of its ModelCompiler.                        *)
(***************************************************************************)
\* C25: when the first compile() of a fresh ModelCompiler returns, the nodes it
\* took away are the folded, the dead and the fused ones (1 for a pair, 2 for a
\* triple), and the list has not grown
C25_CounterAccounting ==
  [][(pc = "finish" /\ ~optimized) =>
       /\ stats'.original_ops - stats'.optimized_ops
            = stats'.constants_folded + stats'.dead_ops_removed + stats'.ops_fused
       /\ stats'.optimized_ops <= stats'.original_ops]_vars

\* a compile() that folded a node and fused a chain has returned
C25_Witness ==
  /\ Returned
  /\ stats.original_ops = Len(entry_nodes)
  /\ stats.constants_folded > 0
  /\ stats.ops_fused > 0
  /\ stats.original_ops - stats.optimized_ops
       = stats.constants_folded + stats.dead_ops_removed + stats.ops_fused

(***************************************************************************)
(* C26  compile() terminates.  compile() is one sequential call: once      *)
(* entered, each of its steps is taken, which is what the fairness         *)
(* condition says; nothing obliges the caller to call compile() again.     *)
(* Each pass is evaluated to its end within its step, so the worklist loop *)
(* and the fusion loop are run to completion on every list reached.        *)
(***************************************************************************)
CompileStep ==
  \/ ConstantFolding
  \/ DeadCodeElimination
  \/ OperatorFusionPass
  \/ LayoutOptimization
  \/ KernelFusionExperimental
  \/ CompileFinish

SpecTermination == Spec /\ WF_vars(CompileStep)

FusedFromChainAt(n, es, j) ==
  /\ n.id = es[j].id
  /\ n.inputs = es[j].inputs
  /\ \/ \E c \in (j + 1)..Len(es) :
          /\ PairRule(es[j].op_type, es[c].op_type)
          /\ n.op_type = FusedKindOf(es[j].op_type, es[c].op_type)
          /\ Chained(es[j], es[c])
          /\ n.outputs = es[c].outputs
     \/ \E b \in (j + 1)..Len(es) : \E c \in (b + 1)..Len(es) :
          /\ es[j].op_type = "CONV2D" /\ es[b].op_type = "BATCHNORM"
          /\ es[c].op_type = "RELU"
          /\ n.op_type = "FUSED_CONV_BATCHNORM_RELU"
          /\ Chained(es[j], es[b]) /\ Chained(es[b], es[c])
          /\ n.outputs = es[c].outputs

\* C27: at every point of a compile() and after it, the list maps into the list
\* at entry by a map that keeps the order, and each node is the node at entry it
\* maps to, unchanged, or the fusion of a chain that started there, with its id
C27_DeleteOrMergeOnly ==
  \E f \in [1..Len(nodes) -> 1..Len(entry_nodes)] :
    /\ \A a, b \in 1..Len(nodes) : a < b => f[a] < f[b]
    /\ \A k \in 1..Len(nodes) :
         \/ nodes[k] = entry_nodes[f[k]]
         \/ FusedFromChainAt(nodes[k], entry_nodes, f[k])

\* compile() has returned a fused node followed by a node of the entry list
C27_Witness ==
  /\ Returned
  /\ Len(entry_nodes) = 3 /\ Len(nodes) = 2
  /\ nodes[1].op_type \in FusedKinds /\ nodes[1].id = entry_nodes[1].id
  /\ nodes[2] = entry_nodes[3]

(***************************************************************************)
(* C28  Folding is seeded only by input-less ADD/MUL nodes.                *)
(***************************************************************************)
\* the list ns without the nodes at the positions in R
RECURSIVE RemoveAt(_, _, _)
RemoveAt(ns, R, k) ==
  IF k > Len(ns) THEN <<>>
  ELSE (IF k \in R THEN <<>> ELSE <<ns[k]>>) \o RemoveAt(ns, R, k + 1)

\* every node at a position in R is an ADD or a MUL each of whose inputs is an
\* output of a node at an earlier position in R
FoldedInOrder(ns, R) ==
  \A i \in R :
    /\ ns[i].op_type \in {"ADD", "MUL"}
    /\ \A m \in 1..Len(ns[i].inputs) :
         \E j \in R : j < i /\ ns[i].inputs[m] \in Range(ns[j].outputs)

\* C28: the folding pass removes only ADD and MUL nodes whose inputs all come
\* from nodes it folded earlier in the sweep, counts each of them, and leaves a
\* list without an input-less ADD or MUL node, and constants_folded, as they were
C28_FoldingSeeds ==
  [][pc = "constant_folding" =>
       /\ \E R \in SUBSET (1..Len(nodes)) :
            /\ nodes' = RemoveAt(nodes, R, 1)
            /\ FoldedInOrder(nodes, R)
            /\ stats'.constants_folded = stats.constants_folded + Cardinality(R)
       /\ (\A k \in 1..Len(nodes) :
             ~(nodes[k].op_type \in {"ADD", "MUL"} /\ nodes[k].inputs = <<>>))
          => (nodes' = nodes /\ stats'.constants_folded = stats.constants_folded)]_vars

\* the pass has folded an input-less ADD and an ADD that reads its output, and
\* kept a node
C28_Witness ==
  /\ pc = "dead_code_elimination"
  /\ stats.constants_folded = 2
  /\ Len(entry_nodes) = 3 /\ Len(nodes) = 1
  /\ \E k \in 1..Len(entry_nodes) :
       /\ entry_nodes[k].op_type \in {"ADD", "MUL"}
       /\ entry_nodes[k].inputs # <<>>
       /\ nodes[1] # entry_nodes[k]
  /\ nodes[1].op_type \notin {"ADD", "MUL"}

(***************************************************************************)
(* C29  Fusion is limited to list-adjacent nodes.                          *)
(***************************************************************************)
\* n is the fusion of the nodes at the consecutive positions i, i+1 (and i+2)
FusedFromAdjacent(n, ns, i) ==
  /\ n.id = ns[i].id
  /\ n.inputs = ns[i].inputs
  /\ \/ /\ i + 1 <= Len(ns)
        /\ PairRule(ns[i].op_type, ns[i + 1].op_type)
        /\ n.op_type = FusedKindOf(ns[i].op_type, ns[i + 1].op_type)
        /\ Chained(ns[i], ns[i + 1])
        /\ n.outputs = ns[i + 1].outputs
     \/ /\ i + 2 <= Len(ns)
        /\ ns[i].op_type = "CONV2D" /\ ns[i + 1].op_type = "BATCHNORM"
        /\ ns[i + 2].op_type = "RELU"
        /\ n.op_type = "FUSED_CONV_BATCHNORM_RELU"
        /\ Chained(ns[i], ns[i + 1]) /\ Chained(ns[i + 1], ns[i + 2])
        /\ n.outputs = ns[i + 2].outputs

\* a rule-matching producer at p and consumer at c, the tensor between them read
\* once, with at least one other node between them in the list
SeparatedPair(ns, p, c) ==
  /\ p + 1 < c
  /\ PairRule(ns[p].op_type, ns[c].op_type)
  /\ Chained(ns[p], ns[c])
  /\ FanOut(ns, ns[p].outputs[1]) = 1

\* C29: every node the fusion pass creates merges nodes that stood at
\* consecutive positions, and a separated pair is left unfused: the producer
\* stays as it was and no node merges the two
C29_AdjacentOnly ==
  [][pc = "operator_fusion" =>
       /\ \A k \in 1..Len(nodes') :
            (\A j \in 1..Len(nodes) : nodes'[k] # nodes[j])
              => \E i \in 1..Len(nodes) : FusedFromAdjacent(nodes'[k], nodes, i)
       /\ \A p, c \in 1..Len(nodes) :
            SeparatedPair(nodes, p, c) =>
              /\ \E k \in 1..Len(nodes') : nodes'[k] = nodes[p]
              /\ \A k \in 1..Len(nodes') :
                   ~(/\ nodes'[k].op_type \in FusedKinds
                     /\ nodes'[k].id = nodes[p].id
                     /\ nodes'[k].outputs = nodes[c].outputs)]_vars

\* the pass has run on a MatMul and a ReLU that reads it with another node
\* between them, and has left the three nodes
C29_Witness ==
  /\ pc = "layout_optimization"
  /\ Len(nodes) = 3
  /\ nodes[1].op_type = "MATMUL" /\ nodes[3].op_type = "RELU"
  /\ Chained(nodes[1], nodes[3])
  /\ FanOut(nodes, nodes[1].outputs[1]) = 1

(***************************************************************************)
(* C30  Level 3 adds nothing over level 2.  Level2 is what compile() at    *)
(* level 2 makes of a list: folding, dead-code elimination, fusion and     *)
(* layout, with the numbers each pass adds to its counter.                 *)
(***************************************************************************)
Level2(ns) ==
  LET folded == ConstantFoldingNodes(ns)
      live   == DeadCodeEliminationNodes(folded, output_ids)
      fusion == OperatorFusion(live)
  IN  [nodes |-> LayoutOptimizationNodes(fusion.nodes),
       constants_folded |-> Len(ns) - Len(folded),
       dead_ops_removed |-> Len(folded) - Len(live),
       ops_fused |-> fusion.ops_fused]

\* C30: a compile() at level 3 and a compile() at level 2 both return the
\* level-2 result of the list at entry, and the first compile() of a fresh
\* ModelCompiler leaves the same folded, dead and fused counters at both levels
C30_Level3SameAsLevel2 ==
  [][(pc = "finish" /\ optimization_level \in {2, 3}) =>
       /\ nodes' = Level2(entry_nodes).nodes
       /\ ~optimized =>
            /\ stats'.constants_folded = Level2(entry_nodes).constants_folded
            /\ stats'.dead_ops_removed = Level2(entry_nodes).dead_ops_removed
            /\ stats'.ops_fused = Level2(entry_nodes).ops_fused
            /\ stats'.optimized_ops = Len(Level2(entry_nodes).nodes)]_vars

\* a compile() at level 3 has run the experimental pass and returned a list
\* that folding and fusion have changed
C30_Witness ==
  /\ Returned
  /\ optimization_level = 3
  /\ Len(passes) = 5 /\ passes[5] = "kernel_fusion_experimental"
  /\ stats.constants_folded > 0 /\ stats.ops_fused > 0
  /\ nodes = Level2(entry_nodes).nodes
  /\ nodes # <<>>

====
